---- MODULE Spec2Model ----
(***************************************************************************)
(* Model of server.py: the Senso MCP tool server.                          *)
(*                                                                         *)
(* The module has two layers, like the source: make_senso_request (the     *)
(* request gateway) and the ten @mcp.tool() handlers.  A handler runs in   *)
(* two atomic steps separated by its only await, the outbound HTTP call:   *)
(*   Call         validation, payload construction, gateway dispatch       *)
(*   HttpRespond / HttpTimeout / HttpConnectError                          *)
(*                the network's answer, the gateway's error normalisation  *)
(*                and the handler's formatting or except clause            *)
(*                                                                         *)
(* Python values are tagged records (t = "none", "str", "int", "bool",     *)
(* "dict", "list").  A Python string that the code builds with an f-string *)
(* is a sequence of fragments: literals are str values, interpolated       *)
(* values are the values themselves.                                       *)
(***************************************************************************)
EXTENDS Integers, Sequences, FiniteSets, TLC

VARIABLES
  API_KEY,    \* module-level global, server.py:10
  handler,    \* handler[i]: the function invocation i runs
  args,       \* args[i]: the arguments of invocation i
  pc,         \* pc[i]: "called", "awaiting" (suspended at the await), "done"
  request,    \* request[i]: the HTTP request invocation i issued, or NoRequest
  response,   \* response[i]: what the network answered, or NoResponse
  outcome,    \* outcome[i]: what the invocation returned or raised
  gwCalls,    \* gwCalls[i]: calls of make_senso_request made by invocation i
  httpCalls,  \* httpCalls[i]: HTTP requests issued for invocation i
  remote      \* which answers the remote API may give: "any" or "plain"

vars == <<API_KEY, handler, args, pc, request, response, outcome, gwCalls, httpCalls, remote>>


-----------------------------------------------------------------------------
(* Bounds *)

\* number of invocations in flight in the concurrent specification
NConc == 2
\* largest number of entries of a list in a response body
MaxItems == 2

-----------------------------------------------------------------------------
(* Program constants *)

SENSO_API_BASE == "https://sdk.senso.ai/api/v1"
INITIAL_API_KEY == "tgr_YOUR_API_KEY"
TIMEOUT == 30
LIMIT_MAX == 100
TEXT_PREVIEW == 100
SOURCES_SHOWN == 5

-----------------------------------------------------------------------------
(* Python values *)

None == [t |-> "none"]
S(s) == [t |-> "str", s |-> s]
I(n) == [t |-> "int", n |-> n]
B(b) == [t |-> "bool", b |-> b]
D(f) == [t |-> "dict", f |-> f]
L(l) == [t |-> "list", l |-> l]
EmptyDict == D([k \in {} |-> None])

\* bool(v): Python truthiness, as used by `if not x` and `if x`
Truthy(v) ==
  CASE v.t = "none" -> FALSE
    [] v.t = "str"  -> v.s # ""
    [] v.t = "int"  -> v.n # 0
    [] v.t = "bool" -> v.b
    [] v.t = "dict" -> DOMAIN v.f # {}
    [] v.t = "list" -> Len(v.l) > 0

\* the result of an expression that may raise: a value or an exception
Val(v) == [ok |-> TRUE, v |-> v]
Exc(type, msg) == [ok |-> FALSE, type |-> type, msg |-> msg]

AttributeError == Exc("AttributeError", <<S("object has no attribute 'get'")>>)
TypeError(what) == Exc("TypeError", <<S(what)>>)

\* d.get(k, default)
DictGet(d, k, default) ==
  IF d.t # "dict" THEN AttributeError
  ELSE IF k \in DOMAIN d.f THEN Val(d.f[k]) ELSE Val(default)

\* min(a, b) for the builtin: ints compare, None and str do not
PyMin(a, b) ==
  IF a.t = "int" /\ b.t = "int"
  THEN Val(IF a.n < b.n THEN a ELSE b)
  ELSE TypeError("'<' not supported between instances")

-----------------------------------------------------------------------------
(* make_senso_request, server.py:12-55 *)

\* A method argument is a sequence of characters, so that str.lower() is
\* computed and not assumed.
Chars(m) == [t |-> "chars", c |-> m]

LowerChar(c) ==
  CASE c = "A" -> "a" [] c = "C" -> "c" [] c = "D" -> "d" [] c = "E" -> "e"
    [] c = "G" -> "g" [] c = "H" -> "h" [] c = "L" -> "l" [] c = "O" -> "o"
    [] c = "P" -> "p" [] c = "S" -> "s" [] c = "T" -> "t" [] c = "U" -> "u"
    [] OTHER -> c

\* method.lower()
Lower(m) == [k \in 1..Len(m) |-> LowerChar(m[k])]

GET == <<"g", "e", "t">>
POST == <<"p", "o", "s", "t">>
PUT == <<"p", "u", "t">>
PATCH == <<"p", "a", "t", "c", "h">>
DELETE == <<"d", "e", "l", "e", "t", "e">>

NoRequest == [sent |-> FALSE]
NoResponse == [kind |-> "none"]

\* headers = {"X-API-Key": API_KEY, "Accept": "application/json"}
Headers(key) == [XAPIKey |-> key, Accept |-> "application/json"]

\* url = f"{SENSO_API_BASE}{endpoint}"
Url(endpoint) == <<S(SENSO_API_BASE)>> \o endpoint

\* One client.<verb>(...) call of the if/elif chain: the request that goes out.
\* Keyword arguments a branch does not pass are None.
HttpRequest(verb, endpoint, key, params, json, data, files) ==
  [sent |-> TRUE, verb |-> verb, url |-> Url(endpoint), headers |-> Headers(key),
   params |-> params, json |-> json, data |-> data, files |-> files,
   timeout |-> TIMEOUT]

\* Faulty variant: the method is compared without .lower()
MutDispatchCaseSensitive(method, endpoint, key, params, json_data, files) ==
  LET req(verb, p, j, d, f) == [k |-> "request", req |-> HttpRequest(verb, endpoint, key, p, j, d, f)]
  IN CASE method = GET    -> req("GET", params, None, None, None)
       [] method = POST   -> req("POST", None, json_data, None, None)
       [] method = PUT    -> req("PUT", None, json_data, None, None)
       [] method = PATCH  -> req("PATCH", None, json_data, None, None)
       [] method = DELETE -> req("DELETE", None, None, None, None)
       [] OTHER -> [k |-> "raise",
                    msg |-> <<S("Request failed: "), S("Unsupported HTTP method: "), Chars(method)>>]

\* The part of make_senso_request before its await (lines 20-42): the request
\* it issues, or the exception the else branch raises, which the
\* `except Exception` clause of line 54 re-raises as "Request failed: ...".
make_senso_request_dispatch(method, endpoint, key, params, json_data, files) ==
  LET m == Lower(method)
      req(verb, p, j, d, f) == [k |-> "request", req |-> HttpRequest(verb, endpoint, key, p, j, d, f)]
  IN CASE m = GET    -> req("GET", params, None, None, None)
       [] m = POST   -> IF Truthy(files)
                        THEN req("POST", None, None, params, files)
                        ELSE req("POST", None, json_data, None, None)
       [] m = PUT    -> req("PUT", None, json_data, None, None)
       [] m = PATCH  -> req("PATCH", None, json_data, None, None)
       [] m = DELETE -> req("DELETE", None, None, None, None)
       [] OTHER -> [k |-> "raise",
                    msg |-> <<S("Request failed: "), S("Unsupported HTTP method: "), Chars(method)>>]

\* What the network can answer.  A response carries a status and a body; the
\* body is a JSON value or text that does not parse (json |-> FALSE).
HttpResponse(status, body) == [kind |-> "response", status |-> status, body |-> body]
TimeoutError == [kind |-> "timeout"]
ConnectError == [kind |-> "connect"]
JsonBody(v) == [json |-> TRUE, v |-> v]
NotJson == [json |-> FALSE]

\* response.is_success, as raise_for_status() tests it
IsSuccess(status) == 200 <= status /\ status <= 299

\* str(e) of the HTTPStatusError that raise_for_status() raises
StatusText(status) == <<S("HTTP status "), I(status)>>

\* Faulty variant: the error field of the body is not looked at
MutIgnoreErrorField(resp) == StatusText(resp.status)

\* lines 46-53: the except httpx.HTTPStatusError clause.  e.response.json()
\* raises on a body that is not JSON and .get raises on a body that is not an
\* object; both fall to str(e), which is also the default of .get.
ApiErrorMessage(resp) ==
  LET got == IF resp.body.json THEN DictGet(resp.body.v, "error", None) ELSE AttributeError
  IN IF got.ok /\ "error" \in DOMAIN resp.body.v.f
     THEN <<got.v>>
     ELSE StatusText(resp.status)

\* Faulty variant: the API error is raised inside the try block, so the
\* `except Exception` clause wraps it again
MutRewrapApiError(resp) ==
  CASE resp.kind = "timeout" -> [k |-> "raise", msg |-> <<S("Request failed: "), S("timed out")>>]
    [] resp.kind = "connect" -> [k |-> "raise", msg |-> <<S("Request failed: "), S("connection failed")>>]
    [] resp.kind = "response" /\ ~IsSuccess(resp.status) ->
         [k |-> "raise", msg |-> <<S("Request failed: "), S("API Error: ")>> \o ApiErrorMessage(resp)]
    [] resp.kind = "response" /\ IsSuccess(resp.status) /\ ~resp.body.json ->
         [k |-> "raise", msg |-> <<S("Request failed: "), S("invalid JSON")>>]
    [] OTHER -> [k |-> "return", v |-> resp.body.v]

\* The part of make_senso_request after its await (lines 44-55): the parsed
\* body, or the one exception it raises.
make_senso_request_result(resp) ==
  CASE resp.kind = "timeout" -> [k |-> "raise", msg |-> <<S("Request failed: "), S("timed out")>>]
    [] resp.kind = "connect" -> [k |-> "raise", msg |-> <<S("Request failed: "), S("connection failed")>>]
    [] resp.kind = "response" /\ ~IsSuccess(resp.status) ->
         [k |-> "raise", msg |-> <<S("API Error: ")>> \o ApiErrorMessage(resp)]
    [] resp.kind = "response" /\ IsSuccess(resp.status) /\ ~resp.body.json ->
         [k |-> "raise", msg |-> <<S("Request failed: "), S("invalid JSON")>>]
    [] OTHER -> [k |-> "return", v |-> resp.body.v]


-----------------------------------------------------------------------------
(* Tool handlers, server.py:57-417 *)

\* What the part of a handler before its await does: return a validation
\* error, let an exception escape, or call make_senso_request.
Return(text) == [k |-> "return", text |-> text]
Raise(e) == [k |-> "raise", type |-> e.type, msg |-> e.msg]
Gateway(method, endpoint, params, json_data) ==
  [k |-> "call", method |-> method, endpoint |-> endpoint, params |-> params,
   json_data |-> json_data, files |-> None]

\* Faulty variant: the optional field is set without the `if value:` guard
MutSetAlways(d, key, value) == (key :> value) @@ d

\* request_data[key] = value, guarded by `if value:`
SetIf(d, key, value) == IF Truthy(value) THEN (key :> value) @@ d ELSE d

\* lines 70-84
add_raw_content(a) ==
  IF ~Truthy(a.text) THEN Return(<<S("Error:"), S(" Content text is required")>>)
  ELSE LET request_data == SetIf(SetIf([k \in {"text"} |-> a.text], "title", a.title),
                                 "summary", a.summary)
       IN Gateway(POST, <<S("/content/raw")>>, None, D(request_data))

\* Faulty variant: max_results is not passed on: the default goes out
MutSearchFixedMaxResults(a) ==
  IF ~Truthy(a.query) THEN Return(<<S("Error:"), S(" Query is required")>>)
  ELSE Gateway(POST, <<S("/search")>>, None,
               D([k \in {"query", "max_results"} |-> IF k = "query" THEN a.query ELSE I(5)]))

\* lines 100-109
search_content(a) ==
  IF ~Truthy(a.query) THEN Return(<<S("Error:"), S(" Query is required")>>)
  ELSE Gateway(POST, <<S("/search")>>, None,
               D([k \in {"query", "max_results"} |->
                    IF k = "query" THEN a.query ELSE a.max_results]))

\* lines 144-155
generate_content(a) ==
  IF ~Truthy(a.content_type) \/ ~Truthy(a.instructions)
  THEN Return(<<S("Error:"), S(" Content type and instructions are required")>>)
  ELSE Gateway(POST, <<S("/generate")>>, None,
               D([k \in {"content_type", "instructions", "save", "max_results"} |->
                    CASE k = "content_type" -> a.content_type
                      [] k = "instructions" -> a.instructions
                      [] k = "save" -> a.save
                      [] k = "max_results" -> a.max_results]))

\* lines 187-196
create_prompt(a) ==
  IF ~Truthy(a.name) \/ ~Truthy(a.text)
  THEN Return(<<S("Error:"), S(" Name and text are required")>>)
  ELSE Gateway(POST, <<S("/prompts")>>, None,
               D([k \in {"name", "text"} |-> IF k = "name" THEN a.name ELSE a.text]))

\* Faulty variant: the limit is sent without min(limit, 100)
MutListParamsNoClamp(a) ==
  IF a.limit.t = "int"
  THEN Val(D([k \in {"limit", "offset"} |-> IF k = "limit" THEN a.limit ELSE a.offset]))
  ELSE TypeError("'<' not supported between instances")

\* lines 212-218 and 303-309: params is built outside the try block
ListParams(a) ==
  LET lim == PyMin(a.limit, I(LIMIT_MAX))
  IN IF lim.ok
     THEN Val(D([k \in {"limit", "offset"} |-> IF k = "limit" THEN lim.v ELSE a.offset]))
     ELSE lim

list_prompts(a) ==
  LET params == ListParams(a)
  IN IF params.ok THEN Gateway(GET, <<S("/prompts")>>, params.v, None)
     ELSE Raise(params)

\* lines 247-256
update_prompt(a) ==
  IF ~Truthy(a.prompt_id) \/ ~Truthy(a.name) \/ ~Truthy(a.text)
  THEN Return(<<S("Error:"), S(" Prompt ID, name, and text are required")>>)
  ELSE Gateway(PUT, <<S("/prompts/"), a.prompt_id>>, None,
               D([k \in {"name", "text"} |-> IF k = "name" THEN a.name ELSE a.text]))

\* Faulty variant: the output_type check is missing
MutAnyOutputType(v) == FALSE

\* output_type not in ["json", "text"]
BadOutputType(v) == ~(v.t = "str" /\ v.s \in {"json", "text"})

TemplateData(a) ==
  D([k \in {"name", "text", "output_type"} |->
       CASE k = "name" -> a.name [] k = "text" -> a.text [] k = "output_type" -> a.output_type])

\* lines 274-287
create_template(a) ==
  IF ~Truthy(a.name) \/ ~Truthy(a.text)
  THEN Return(<<S("Error:"), S(" Name and text are required")>>)
  ELSE IF BadOutputType(a.output_type)
  THEN Return(<<S("Error:"), S(" output_type must be 'json' or 'text'")>>)
  ELSE Gateway(POST, <<S("/templates")>>, None, TemplateData(a))

list_templates(a) ==
  LET params == ListParams(a)
  IN IF params.ok THEN Gateway(GET, <<S("/templates")>>, params.v, None)
     ELSE Raise(params)

\* lines 341-354
update_template(a) ==
  IF ~Truthy(a.template_id) \/ ~Truthy(a.name) \/ ~Truthy(a.text)
  THEN Return(<<S("Error:"), S(" Template ID, name, and text are required")>>)
  ELSE IF BadOutputType(a.output_type)
  THEN Return(<<S("Error:"), S(" output_type must be 'json' or 'text'")>>)
  ELSE Gateway(PUT, <<S("/templates/"), a.template_id>>, None, TemplateData(a))

\* lines 376-390
generate_with_prompt(a) ==
  IF ~Truthy(a.prompt_id) \/ ~Truthy(a.content_type)
  THEN Return(<<S("Error:"), S(" Prompt ID and content type are required")>>)
  ELSE LET request_data ==
             SetIf([k \in {"prompt_id", "content_type", "save", "max_results"} |->
                      CASE k = "prompt_id" -> a.prompt_id
                        [] k = "content_type" -> a.content_type
                        [] k = "save" -> a.save
                        [] k = "max_results" -> a.max_results],
                   "template_id", a.template_id)
       IN Gateway(POST, <<S("/generate/prompt")>>, None, D(request_data))


-----------------------------------------------------------------------------
(* Formatting of the gateway's answer: the code of each try block after the
   await.  Every operator yields Val(text) or the exception the code raises. *)

\* f"{v}": str(None) is the text None; other values print as themselves
Str(v) == IF v.t = "none" THEN S("None") ELSE v

\* d.get(k, default) on a value known to be a dict
Field(d, k, default) == IF k \in DOMAIN d.f THEN d.f[k] ELSE default

\* len(v): defined on str, list and dict
PyLen(v) ==
  CASE v.t = "str"  -> Val(I(Len(v.s)))
    [] v.t = "list" -> Val(I(Len(v.l)))
    [] v.t = "dict" -> Val(I(Cardinality(DOMAIN v.f)))
    [] OTHER -> TypeError("object has no len()")

\* for x in v: the elements the loop visits.  A str yields its characters and
\* a dict its keys; these are str values, written here as one element since a
\* loop body that calls .get on the first of them raises there.
Iterate(v) ==
  CASE v.t = "list" -> Val(v.l)
    [] v.t = "str" /\ v.s # "" -> Val(<<S("<char>")>>)
    [] v.t = "dict" /\ DOMAIN v.f # {} -> Val(<<S("<key>")>>)
    [] v.t \in {"str", "dict"} -> Val(<<>>)
    [] v.t = "slice" -> Val(<<S("<char>")>>)
    [] OTHER -> TypeError("object is not iterable")

\* v[:n]: defined on str and list
Slice(v, n) ==
  CASE v.t = "str"  -> Val(IF Len(v.s) > n THEN [t |-> "slice", of |-> v, n |-> n] ELSE v)
    [] v.t = "list" -> Val(IF Len(v.l) > n THEN L(SubSeq(v.l, 1, n)) ELSE v)
    [] OTHER -> TypeError("object is not subscriptable")

RECURSIVE Flatten(_)
Flatten(ss) == IF Len(ss) = 0 THEN <<>> ELSE Head(ss) \o Flatten(Tail(ss))

\* A loop over items whose body calls .get on the item and appends lines[i]:
\* the text of all items, or the AttributeError of the first item that is
\* not a dict.
Loop(items, lines) ==
  IF \E i \in 1..Len(items) : items[i].t # "dict" THEN AttributeError
  ELSE Val(Flatten(lines))

\* lines 85
add_raw_content_format(a, r) ==
  IF r.t # "dict" THEN AttributeError
  ELSE Val(<<S("Content successfully added with ID: "), Str(Field(r, "id", S("unknown"))),
             S("\nTitle: "), Str(Field(r, "title", S("Untitled")))>>)

\* lines 111-125
search_content_format(a, r) ==
  IF r.t # "dict" THEN AttributeError
  ELSE LET answer == Field(r, "answer", S("No answer generated."))
           results == Field(r, "results", L(<<>>))
           n == PyLen(results)
           items == Iterate(results)
           body == Loop(items.v, [i \in 1..Len(items.v) |->
                     <<S("Result "), I(i), S(":\nTitle: "), Str(Field(items.v[i], "title", S("No title"))),
                       S("\nContent: "), Str(Field(items.v[i], "chunk_text", S("No content"))),
                       S("\nID: "), Str(Field(items.v[i], "content_id", S("No ID"))), S("\n\n")>>])
       IN IF ~Truthy(results)
          THEN Val(<<S("No relevant information found for query: '"), Str(a.query), S("'.")>>)
          ELSE IF ~n.ok THEN n
          ELSE IF ~items.ok THEN items
          ELSE IF ~body.ok THEN body
          ELSE Val(<<S("Answer: "), Str(answer), S("\n\nFound "), n.v,
                     S(" relevant results for '"), Str(a.query), S("':\n\n")>> \o body.v)

\* lines 157-172
generate_content_format(a, r) ==
  IF r.t # "dict" THEN AttributeError
  ELSE LET generated_text == Field(r, "generated_text", S("No content generated."))
           content_id == Field(r, "content_id", None)
           sources == Field(r, "sources", L(<<>>))
           items == Iterate(sources)
           body == Loop(items.v, [i \in 1..Len(items.v) |->
                     <<S("Source "), I(i), S(": "), Str(Field(items.v[i], "title", S("No title"))), S("\n")>>])
           saved == IF Truthy(content_id) /\ Truthy(a.save)
                    THEN <<S("Content was saved with ID: "), Str(content_id), S("\n\n")>>
                    ELSE <<>>
           head == <<S("Generated content about "), Str(a.content_type), S(":\n\n"),
                     Str(generated_text), S("\n\n")>> \o saved
       IN IF ~Truthy(sources) THEN Val(head)
          ELSE IF ~items.ok THEN items
          ELSE IF ~body.ok THEN body
          ELSE Val(head \o <<S("Sources used for generation:\n")>> \o body.v)

\* lines 197 and 257
PromptText(literal, r) ==
  IF r.t # "dict" THEN AttributeError
  ELSE Val(<<S(literal), S("\nID: "), Str(Field(r, "prompt_id", None)),
             S("\nName: "), Str(Field(r, "name", None))>>)

create_prompt_format(a, r) == PromptText("Prompt created successfully!", r)
update_prompt_format(a, r) == PromptText("Prompt updated successfully!", r)

\* f"...{x.get('text', '')[:100]}{'...' if len(x.get('text', '')) > 100 else ''}"
Preview(x) ==
  LET text == Field(x, "text", S(""))
      cut == Slice(text, TEXT_PREVIEW)
      n == PyLen(text)
  IN IF ~cut.ok THEN cut
     ELSE IF ~n.ok THEN n
     ELSE Val(<<Str(cut.v), S(IF n.v.n > TEXT_PREVIEW THEN "..." ELSE "")>>)

\* lines 220-230 and 311-322: the loop stops at the first item that is not a
\* dict or whose text cannot be sliced; lines[i] is the text of item i of a
\* list (a str and a dict yield str items, which stop the loop)
ListText(r, empty, title, lines) ==
  LET n == PyLen(r)
      items == Iterate(r)
  IN IF ~Truthy(r) THEN Val(<<S(empty)>>)
     ELSE IF ~n.ok THEN n
     ELSE IF ~items.ok THEN items
     ELSE IF \E i \in 1..Len(items.v) : items.v[i].t # "dict" THEN AttributeError
     ELSE IF \E i \in 1..Len(items.v) : ~Preview(items.v[i]).ok
          THEN Preview(items.v[CHOOSE i \in 1..Len(items.v) : ~Preview(items.v[i]).ok])
     ELSE Val(<<S(title), n.v, S(" results):\n\n")>>
              \o Flatten(lines))

list_prompts_format(a, r) ==
  ListText(r, "No prompts found.", "Prompts (showing ",
           [i \in 1..Len(r.l) |->
              <<S("ID: "), Str(Field(r.l[i], "prompt_id", None)),
                S("\nName: "), Str(Field(r.l[i], "name", None)),
                S("\nText: ")>> \o Preview(r.l[i]).v
              \o <<S("\nCreated: "), Str(Field(r.l[i], "created_at", S("Unknown"))), S("\n\n")>>])

\* line 288
create_template_format(a, r) ==
  IF r.t # "dict" THEN AttributeError
  ELSE Val(<<S("Template created successfully!"), S("\nID: "), Str(Field(r, "template_id", None)),
             S("\nName: "), Str(Field(r, "name", None)),
             S("\nOutput Type: "), Str(Field(r, "output_type", None))>>)

list_templates_format(a, r) ==
  ListText(r, "No templates found.", "Templates (showing ",
           [i \in 1..Len(r.l) |->
              <<S("ID: "), Str(Field(r.l[i], "template_id", None)),
                S("\nName: "), Str(Field(r.l[i], "name", None)),
                S("\nOutput Type: "), Str(Field(r.l[i], "output_type", None)),
                S("\nText: ")>> \o Preview(r.l[i]).v
              \o <<S("\nCreated: "), Str(Field(r.l[i], "created_at", S("Unknown"))), S("\n\n")>>])

\* line 355
update_template_format(a, r) ==
  IF r.t # "dict" THEN AttributeError
  ELSE Val(<<S("Template updated successfully!"), S("\nID: "), Str(Field(r, "template_id", None)),
             S("\nName: "), Str(Field(r, "name", None))>>)

\* lines 392-415
generate_with_prompt_format(a, r) ==
  IF r.t # "dict" THEN AttributeError
  ELSE LET generated_text == Field(r, "generated_text", S("No content generated."))
           content_id == Field(r, "content_id", None)
           prompt_info == Field(r, "prompt", EmptyDict)
           template_info == Field(r, "template", None)
           sources == Field(r, "sources", L(<<>>))
           n == PyLen(sources)
           first == Slice(sources, SOURCES_SHOWN)
           items == Iterate(first.v)
           body == Loop(items.v, [i \in 1..Len(items.v) |->
                     <<S("- "), Str(Field(items.v[i], "title", S("No title"))), S("\n")>>])
           head == <<S("Generated content using prompt '"),
                     Str(Field(prompt_info, "name", S("Unknown"))), S("':\n\n"),
                     Str(generated_text), S("\n\n")>>
           formatted == IF Truthy(template_info)
                        THEN <<S("Formatted with template: "), Str(Field(template_info, "name", None)),
                               S(" ("), Str(Field(template_info, "output_type", None)), S(")\n\n")>>
                        ELSE <<>>
           saved == IF Truthy(content_id) /\ Truthy(a.save)
                    THEN <<S("Content was saved with ID: "), Str(content_id), S("\n\n")>>
                    ELSE <<>>
           more == IF n.v.n > SOURCES_SHOWN
                   THEN <<S("... and "), I(n.v.n - SOURCES_SHOWN), S(" more sources\n")>>
                   ELSE <<>>
       IN IF prompt_info.t # "dict" THEN AttributeError
          ELSE IF Truthy(template_info) /\ template_info.t # "dict" THEN AttributeError
          ELSE IF ~Truthy(sources) THEN Val(head \o formatted \o saved)
          ELSE IF ~n.ok THEN n
          ELSE IF ~first.ok THEN first
          ELSE IF ~items.ok THEN items
          ELSE IF ~body.ok THEN body
          ELSE Val(head \o formatted \o saved
                   \o <<S("Sources used ("), n.v, S(" total):\n")>> \o body.v \o more)


-----------------------------------------------------------------------------
(* A handler as a whole *)

Handlers == {"add_raw_content", "search_content", "generate_content", "create_prompt",
             "list_prompts", "update_prompt", "create_template", "list_templates",
             "update_template", "generate_with_prompt"}

\* What make_senso_request's own caller is called in the model: a slot whose
\* handler is GatewayOnly calls the gateway directly with the arguments in args.
GatewayOnly == "make_senso_request"

\* the code of handler h before its await
Before(h, a) ==
  CASE h = "add_raw_content" -> add_raw_content(a)
    [] h = "search_content" -> search_content(a)
    [] h = "generate_content" -> generate_content(a)
    [] h = "create_prompt" -> create_prompt(a)
    [] h = "list_prompts" -> list_prompts(a)
    [] h = "update_prompt" -> update_prompt(a)
    [] h = "create_template" -> create_template(a)
    [] h = "list_templates" -> list_templates(a)
    [] h = "update_template" -> update_template(a)
    [] h = "generate_with_prompt" -> generate_with_prompt(a)
    [] h = GatewayOnly ->
         [k |-> "call", method |-> a.method, endpoint |-> a.endpoint, params |-> a.params,
          json_data |-> a.json_data, files |-> a.files]

\* the code of handler h's try block after its await
Format(h, a, r) ==
  CASE h = "add_raw_content" -> add_raw_content_format(a, r)
    [] h = "search_content" -> search_content_format(a, r)
    [] h = "generate_content" -> generate_content_format(a, r)
    [] h = "create_prompt" -> create_prompt_format(a, r)
    [] h = "list_prompts" -> list_prompts_format(a, r)
    [] h = "update_prompt" -> update_prompt_format(a, r)
    [] h = "create_template" -> create_template_format(a, r)
    [] h = "list_templates" -> list_templates_format(a, r)
    [] h = "update_template" -> update_template_format(a, r)
    [] h = "generate_with_prompt" -> generate_with_prompt_format(a, r)

\* the literal of handler h's `except Exception as e: return f"...: {str(e)}"`
FailurePrefix(h) ==
  CASE h = "add_raw_content" -> "Failed to add content: "
    [] h = "search_content" -> "Search failed: "
    [] h = "generate_content" -> "Content generation failed: "
    [] h = "create_prompt" -> "Failed to create prompt: "
    [] h = "list_prompts" -> "Failed to list prompts: "
    [] h = "update_prompt" -> "Failed to update prompt: "
    [] h = "create_template" -> "Failed to create template: "
    [] h = "list_templates" -> "Failed to list templates: "
    [] h = "update_template" -> "Failed to update template: "
    [] h = "generate_with_prompt" -> "Content generation with prompt failed: "

\* How an invocation ends: it returns a string (success or failure text), an
\* exception escapes it, or (the gateway called directly) it returns the body.
NoOutcome == [kind |-> "none", text |-> <<>>]
Success(text) == [kind |-> "success", text |-> text]
Failure(text) == [kind |-> "failure", text |-> text]
Raised(msg) == [kind |-> "raised", text |-> msg]
Body == [kind |-> "body", text |-> <<>>]

\* except Exception as e: return f"<prefix>{str(e)}"
Except(h, msg) == Failure(<<S(FailurePrefix(h))>> \o msg)

\* The invocation's first step, up to the await or to its end.
Start(h, a, key) ==
  LET b == Before(h, a)
      d == make_senso_request_dispatch(b.method, b.endpoint, key, b.params, b.json_data, b.files)
  IN CASE b.k = "return" ->
            [pc |-> "done", request |-> NoRequest, outcome |-> Failure(b.text), gw |-> 0, http |-> 0]
       [] b.k = "raise" ->
            [pc |-> "done", request |-> NoRequest, outcome |-> Raised(b.msg), gw |-> 0, http |-> 0]
       [] b.k = "call" /\ d.k = "request" ->
            [pc |-> "awaiting", request |-> d.req, outcome |-> NoOutcome, gw |-> 1, http |-> 1]
       [] OTHER ->
            [pc |-> "done", request |-> NoRequest,
             outcome |-> IF h = GatewayOnly THEN Raised(d.msg) ELSE Except(h, d.msg),
             gw |-> 1, http |-> 0]

\* The invocation's second step: the gateway's result, then the handler's
\* formatting, with both failures caught by the handler's except clause.
Finish(h, a, resp) ==
  LET g == make_senso_request_result(resp)
      f == Format(h, a, g.v)
  IN IF h = GatewayOnly
     THEN IF g.k = "raise" THEN Raised(g.msg) ELSE Body
     ELSE IF g.k = "raise" THEN Except(h, g.msg)
     ELSE IF f.ok THEN Success(f.v)
     ELSE Except(h, f.msg)


-----------------------------------------------------------------------------
(* Inputs: the arguments a caller passes and the answers the network gives *)

NonEmpty == S("a")
StrArgs == {None, S(""), NonEmpty}
LimitArgs == {None, I(0 - 1), I(10), I(LIMIT_MAX), I(LIMIT_MAX + 1), I(500)}
OffsetArgs == {None, I(0), I(20)}
MaxResultsArgs == {None, I(5), I(1000)}
SaveArgs == {B(TRUE), B(FALSE)}
OutputTypeArgs == {None, S(""), S("json"), S("text"), S("xml")}
MethodArgs == {GET, <<"G", "E", "T">>, <<"G", "e", "t">>, POST, <<"P", "O", "S", "T">>,
               PUT, <<"P", "u", "t">>, PATCH, <<"P", "A", "T", "C", "H">>,
               DELETE, <<"D", "E", "L", "E", "T", "E">>,
               <<"h", "e", "a", "d">>, <<"H", "E", "A", "D">>, <<>>}
FilesArgs == {None, D([k \in {"file"} |-> S("blob")])}
ParamsArgs == {None, D([k \in {"limit"} |-> I(1)])}
JsonArgs == {None, D([k \in {"text"} |-> S("t")])}

\* The argument records of handler h, over the given value sets.
ArgsOf(h, str, lim, off, mr, sv, ot, meth, files, params, json) ==
  CASE h = "add_raw_content" -> [title : str, summary : str, text : str]
    [] h = "search_content" -> [query : str, max_results : mr]
    [] h = "generate_content" -> [content_type : str, instructions : str, save : sv, max_results : mr]
    [] h = "create_prompt" -> [name : str, text : str]
    [] h = "list_prompts" -> [limit : lim, offset : off]
    [] h = "update_prompt" -> [prompt_id : str, name : str, text : str]
    [] h = "create_template" -> [name : str, text : str, output_type : ot]
    [] h = "list_templates" -> [limit : lim, offset : off]
    [] h = "update_template" -> [template_id : str, name : str, text : str, output_type : ot]
    [] h = "generate_with_prompt" ->
         [prompt_id : str, content_type : str, template_id : str, save : sv, max_results : mr]
    [] h = GatewayOnly ->
         [method : meth, endpoint : {<<S("/content/raw")>>}, params : params,
          json_data : json, files : files]

AllArgs(h) ==
  ArgsOf(h, StrArgs, LimitArgs, OffsetArgs, MaxResultsArgs, SaveArgs, OutputTypeArgs,
         MethodArgs, FilesArgs, ParamsArgs, JsonArgs)

\* the text of a prompt or template longer than the preview of TEXT_PREVIEW characters
LongText ==
  "0123456789012345678901234567890123456789012345678901234567890123456789012345678901234567890123456789+"

Entry(text) ==
  D([k \in {"title", "chunk_text", "content_id", "prompt_id", "template_id", "name",
            "output_type", "text", "created_at"} |->
       IF k = "text" THEN text ELSE S(k)])

\* the entries of a list in a response body: well-formed ones and one that is
\* not an object
Entries == {Entry(S("short")), Entry(S(LongText)), S("stray")}

ListsUpTo(n) == UNION {[1..k -> Entries] : k \in 0..n}

\* a list longer than the SOURCES_SHOWN that generate_with_prompt prints
ManyEntries == [k \in 1..(SOURCES_SHOWN + 1) |-> Entry(S("short"))]

ListValues == {L(l) : l \in ListsUpTo(MaxItems) \cup {ManyEntries}}

\* the object a 2xx answer carries, with the lists of every endpoint set to l
Answer(l) ==
  D([k \in {"id", "title", "answer", "results", "generated_text", "content_id", "sources",
            "prompt_id", "template_id", "name", "output_type", "prompt", "template"} |->
       CASE k \in {"results", "sources"} -> l
         [] k = "prompt" -> D([j \in {"name"} |-> S("p")])
         [] k = "template" -> D([j \in {"name", "output_type"} |-> S("t")])
         [] OTHER -> S(k)])

\* an object whose fields have other types than the handlers expect
Misshapen ==
  D([k \in {"results", "sources", "prompt", "template", "content_id"} |->
       CASE k \in {"results", "sources"} -> I(3)
         [] k = "prompt" -> None
         [] k = "template" -> S("t")
         [] OTHER -> None])

ErrorBody(x) == D([k \in {"error"} |-> x])

JsonValues ==
  ListValues \cup {Answer(l) : l \in ListValues}
    \cup {EmptyDict, Misshapen, None, I(7), S("ok"),
          D([k \in {"sources"} |-> Misshapen]), D([k \in {"results"} |-> S("text")]),
          L(<<Entry(None)>>), L(<<Entry(I(5))>>),
          ErrorBody(S("X")), ErrorBody(S("quota exceeded")), ErrorBody(None),
          D([k \in {"detail"} |-> S("X")])}

Bodies == {JsonBody(v) : v \in JsonValues} \cup {NotJson}
Statuses == {200, 299, 300, 404}
AllAnswers == {HttpResponse(st, b) : st \in Statuses, b \in Bodies}

\* the answers of a remote API that only answers with a well-formed object
\* or a structured error
ConcAnswers ==
  {HttpResponse(200, JsonBody(Answer(L(<<Entry(S("short"))>>)))),
   HttpResponse(404, JsonBody(ErrorBody(S("X"))))}

\* the answers a remote API of kind r may give
RemoteAnswers(r) == IF r = "any" THEN AllAnswers ELSE ConcAnswers

-----------------------------------------------------------------------------
(* The state machine *)

Slots == DOMAIN pc

\* the ways n invocations can be made: for each, a handler and arguments from
\* argsOf[i][h]
RECURSIVE Invocations(_, _)
Invocations(n, argsOf) ==
  IF n = 0 THEN {<<>>}
  ELSE LET last == UNION {{[h |-> h, a |-> a] : a \in argsOf[n][h]} : h \in Handlers \cup {GatewayOnly}}
       IN {Append(f, x) : f \in Invocations(n - 1, argsOf), x \in last}

InitSlots(n, argsOf) ==
  /\ API_KEY = INITIAL_API_KEY
  /\ \E f \in Invocations(n, argsOf) :
       /\ handler = [i \in 1..n |-> f[i].h]
       /\ args = [i \in 1..n |-> f[i].a]
  /\ pc = [i \in 1..n |-> "called"]
  /\ request = [i \in 1..n |-> NoRequest]
  /\ response = [i \in 1..n |-> NoResponse]
  /\ outcome = [i \in 1..n |-> NoOutcome]
  /\ gwCalls = [i \in 1..n |-> 0]
  /\ httpCalls = [i \in 1..n |-> 0]

\* one invocation, any handler, any arguments, any answer
Init ==
  /\ InitSlots(1, [i \in {1} |-> [h \in Handlers \cup {GatewayOnly} |-> AllArgs(h)]])
  /\ remote = "any"

\* Faulty variant: the request is kept in one module-level object that every
\* invocation in flight shares
MutCallShared(i) ==
  /\ pc[i] = "called"
  /\ LET st == Start(handler[i], args[i], API_KEY)
     IN /\ pc' = [pc EXCEPT ![i] = st.pc]
        /\ request' = [j \in Slots |->
                         IF j = i \/ (st.request.sent /\ pc[j] = "awaiting")
                         THEN st.request ELSE request[j]]
        /\ outcome' = [outcome EXCEPT ![i] = st.outcome]
        /\ gwCalls' = [gwCalls EXCEPT ![i] = @ + st.gw]
        /\ httpCalls' = [httpCalls EXCEPT ![i] = @ + st.http]
  /\ UNCHANGED <<API_KEY, handler, args, response, remote>>

\* the hosting runtime calls the handler: it runs to its await or to its end
Call(i) ==
  /\ pc[i] = "called"
  /\ LET st == Start(handler[i], args[i], API_KEY)
     IN /\ pc' = [pc EXCEPT ![i] = st.pc]
        /\ request' = [request EXCEPT ![i] = st.request]
        /\ outcome' = [outcome EXCEPT ![i] = st.outcome]
        /\ gwCalls' = [gwCalls EXCEPT ![i] = @ + st.gw]
        /\ httpCalls' = [httpCalls EXCEPT ![i] = @ + st.http]
  /\ UNCHANGED <<API_KEY, handler, args, response, remote>>

\* the awaited client call completes with resp and the coroutine runs to its end
Resume(i, resp) ==
  /\ pc[i] = "awaiting"
  /\ response' = [response EXCEPT ![i] = resp]
  /\ outcome' = [outcome EXCEPT ![i] = Finish(handler[i], args[i], resp)]
  /\ pc' = [pc EXCEPT ![i] = "done"]
  /\ UNCHANGED <<API_KEY, handler, args, request, gwCalls, httpCalls, remote>>

\* the remote API answers the request
HttpRespond(i) == \E resp \in RemoteAnswers(remote) : Resume(i, resp)

\* no answer within the request's timeout: httpx raises a TimeoutException
HttpTimeout(i) == request[i].sent /\ request[i].timeout = TIMEOUT /\ Resume(i, TimeoutError)

\* the connection fails: httpx raises a ConnectError
HttpConnectError(i) == Resume(i, ConnectError)

Next ==
  \E i \in Slots :
    \/ Call(i)
    \/ HttpRespond(i)
    \/ HttpTimeout(i)
    \/ HttpConnectError(i)

Spec == Init /\ [][Next]_vars


\* Concurrent invocations: NConc invocations in flight at once, interleaved
\* at their awaits.  Invocation i passes values that carry its own mark.
Tag(i) == S("v" \o ToString(i))

ConcArgs(i, h) ==
  ArgsOf(h, {Tag(i)}, {I(LIMIT_MAX + i)}, {I(i)}, {I(i)}, {B(TRUE)}, {S("json")},
         {POST}, {None}, {None}, {D([k \in {"text"} |-> Tag(i)])})


InitConc ==
  /\ InitSlots(NConc, [i \in 1..NConc |-> [h \in Handlers \cup {GatewayOnly} |-> ConcArgs(i, h)]])
  /\ remote = "plain"

SpecConc == InitConc /\ [][Next]_vars

-----------------------------------------------------------------------------
(* Properties *)

Done(i) == pc[i] = "done"
IsTool(i) == handler[i] \in Handlers

\* a required argument that is missing or empty
Missing(v) == v.t = "none" \/ (v.t = "str" /\ v.s = "")

\* the required arguments of each handler that has any
Required(h) ==
  CASE h = "add_raw_content" -> {"text"}
    [] h = "search_content" -> {"query"}
    [] h = "generate_content" -> {"content_type", "instructions"}
    [] h = "create_prompt" -> {"name", "text"}
    [] h = "update_prompt" -> {"prompt_id", "name", "text"}
    [] h = "create_template" -> {"name", "text"}
    [] h = "update_template" -> {"template_id", "name", "text"}
    [] h = "generate_with_prompt" -> {"prompt_id", "content_type"}
    [] OTHER -> {}

Invalid(h, a) ==
  \/ \E k \in Required(h) : Missing(a[k])
  \/ /\ h \in {"create_template", "update_template"}
     /\ ~(a.output_type.t = "str" /\ a.output_type.s \in {"json", "text"})

\* C1: a handler given a missing or empty required argument, or an
\* output_type other than "json" and "text", returns a string that begins
\* with "Error:" and never calls make_senso_request.
C1_ValidationBeforeNetwork ==
  \A i \in Slots :
    (IsTool(i) /\ pc[i] # "called" /\ Invalid(handler[i], args[i])) =>
      /\ Done(i)
      /\ outcome[i].kind = "failure"
      /\ Len(outcome[i].text) >= 1
      /\ outcome[i].text[1] = S("Error:")
      /\ gwCalls[i] = 0
      /\ httpCalls[i] = 0
      /\ ~request[i].sent

C1_Witness ==
  \E i \in Slots :
    /\ handler[i] = "update_template" /\ Done(i)
    /\ ~Missing(args[i].template_id) /\ ~Missing(args[i].name) /\ ~Missing(args[i].text)
    /\ args[i].output_type = S("xml")
    /\ outcome[i].text[1] = S("Error:")

\* C2: no exception escapes a tool handler: every invocation that has ended
\* has returned a string.
C2_HandlersNeverRaise ==
  \A i \in Slots : (IsTool(i) /\ Done(i)) => outcome[i].kind \in {"success", "failure"}

\* a non-2xx answer whose body is the object {"error": X}, X a string
ApiError(resp) ==
  /\ resp.kind = "response"
  /\ resp.status < 200 \/ resp.status > 299
  /\ resp.body.json
  /\ resp.body.v.t = "dict"
  /\ DOMAIN resp.body.v.f = {"error"}
  /\ resp.body.v.f["error"].t = "str"

\* C3: when the remote API answers a validated call with a non-2xx status and
\* the body {"error": X}, the handler returns its failure prefix followed by
\* "API Error: " and X, and nothing is raised.
C3_ApiErrorSurfaced ==
  \A i \in Slots :
    (IsTool(i) /\ Done(i) /\ ApiError(response[i])) =>
      /\ outcome[i].kind = "failure"
      /\ outcome[i].text =
           <<S(FailurePrefix(handler[i])), S("API Error: "), response[i].body.v.f["error"]>>

C3_Witness ==
  \E i \in Slots :
    /\ handler[i] = "add_raw_content" /\ Done(i)
    /\ response[i] = HttpResponse(404, JsonBody(ErrorBody(S("quota exceeded"))))
    /\ outcome[i].text[3] = S("quota exceeded")

\* the upper-case form of a letter of a supported method name
UpperChar(c) ==
  CASE c = "a" -> "A" [] c = "c" -> "C" [] c = "d" -> "D" [] c = "e" -> "E"
    [] c = "g" -> "G" [] c = "h" -> "H" [] c = "l" -> "L" [] c = "o" -> "O"
    [] c = "p" -> "P" [] c = "s" -> "S" [] c = "t" -> "T" [] c = "u" -> "U"
    [] OTHER -> c

\* m is GET, POST, PUT, PATCH or DELETE in some mix of cases
Supported(m) ==
  \E name \in {GET, POST, PUT, PATCH, DELETE} :
    /\ Len(m) = Len(name)
    /\ \A k \in 1..Len(name) : m[k] \in {name[k], UpperChar(name[k])}

\* C4: a call of make_senso_request issues exactly one HTTP request when its
\* method is GET, POST, PUT, PATCH or DELETE in any case, also after that
\* request has failed, and issues none and raises for any other method.
C4_OneAttemptPerCall ==
  \A i \in Slots :
    /\ httpCalls[i] <= gwCalls[i] /\ gwCalls[i] <= 1
    /\ (handler[i] = GatewayOnly /\ pc[i] # "called") =>
         /\ gwCalls[i] = 1
         /\ IF Supported(args[i].method)
            THEN httpCalls[i] = 1 /\ request[i].sent
            ELSE httpCalls[i] = 0 /\ ~request[i].sent /\ Done(i) /\ outcome[i].kind = "raised"

C4_Witness ==
  \E i \in Slots :
    /\ handler[i] = GatewayOnly /\ Done(i)
    /\ args[i].method = <<"P", "A", "T", "C", "H">>
    /\ response[i].kind = "timeout"
    /\ httpCalls[i] = 1

\* C5: make_senso_request raises "API Error: <error field>" for a non-2xx
\* answer whose body is an object with an "error" field, "API Error: <status
\* text>" for any other non-2xx answer, "Request failed: <cause>" for a
\* timeout, a connection error or a 2xx body that does not parse, never
\* "Request failed: API Error: ...", and nothing for a 2xx answer that parses.
C5_ErrorChannel ==
  \A i \in Slots :
    (handler[i] = GatewayOnly /\ Done(i) /\ request[i].sent) =>
      LET r == response[i]
          non2xx == r.kind = "response" /\ (r.status < 200 \/ r.status > 299)
          hasField == r.body.json /\ r.body.v.t = "dict" /\ "error" \in DOMAIN r.body.v.f
          text == outcome[i].text
      IN /\ (non2xx /\ hasField) =>
              outcome[i] = Raised(<<S("API Error: "), r.body.v.f["error"]>>)
         /\ (non2xx /\ ~hasField) =>
              outcome[i] = Raised(<<S("API Error: "), S("HTTP status "), I(r.status)>>)
         /\ (r.kind \in {"timeout", "connect"} \/ (r.kind = "response" /\ ~non2xx /\ ~r.body.json)) =>
              /\ outcome[i].kind = "raised"
              /\ Len(text) = 2 /\ text[1] = S("Request failed: ") /\ text[2] # S("API Error: ")
         /\ (r.kind = "response" /\ ~non2xx /\ r.body.json) => outcome[i].kind = "body"
         /\ outcome[i].kind = "raised" =>
              ~(Len(text) >= 2 /\ text[1] = S("Request failed: ") /\ text[2] = S("API Error: "))

C5_Witness ==
  \E i \in Slots :
    /\ handler[i] = GatewayOnly /\ Done(i)
    /\ response[i] = HttpResponse(300, NotJson)
    /\ outcome[i] = Raised(<<S("API Error: "), S("HTTP status "), I(300)>>)

ListHandlers == {"list_prompts", "list_templates"}

\* C6: the "limit" parameter list_prompts and list_templates send is
\* min(L, 100) for the limit L they were called with, and "offset" is sent
\* as passed.
C6_ListLimitClamped ==
  \A i \in Slots :
    (handler[i] \in ListHandlers /\ request[i].sent) =>
      /\ args[i].limit.t = "int"
      /\ request[i].params.t = "dict"
      /\ DOMAIN request[i].params.f = {"limit", "offset"}
      /\ request[i].params.f["limit"] =
           I(IF args[i].limit.n <= 100 THEN args[i].limit.n ELSE 100)
      /\ request[i].params.f["offset"] = args[i].offset

C6_Witness ==
  \E i \in Slots :
    /\ handler[i] = "list_templates" /\ request[i].sent
    /\ args[i].limit = I(500) /\ args[i].offset = I(20)
    /\ request[i].params.f["limit"] = I(100)

\* key k is in the JSON payload of invocation i exactly when argument v is a
\* non-empty string, and then with v as its value
SentIffPresent(i, k, v) ==
  LET payload == request[i].json.f
      present == v.t = "str" /\ v.s # ""
  IN /\ (k \in DOMAIN payload) <=> present
     /\ present => payload[k] = v

\* C7: add_raw_content sends "title" and "summary", and generate_with_prompt
\* sends "template_id", exactly when a non-empty value was passed, never as a
\* null or empty value.
C7_OptionalOnlyWhenPresent ==
  \A i \in Slots :
    /\ (handler[i] = "add_raw_content" /\ request[i].sent) =>
         /\ SentIffPresent(i, "title", args[i].title)
         /\ SentIffPresent(i, "summary", args[i].summary)
    /\ (handler[i] = "generate_with_prompt" /\ request[i].sent) =>
         SentIffPresent(i, "template_id", args[i].template_id)

C7_Witness ==
  \E i \in Slots :
    /\ handler[i] = "add_raw_content" /\ request[i].sent
    /\ args[i].title = S("") /\ args[i].summary = NonEmpty
    /\ DOMAIN request[i].json.f = {"text", "summary"}

\* C9: a tool invocation calls the gateway at most once, which issues at most
\* one request, and ends in a success text or a failure text.
C9_SingleShotTwoOutcomes ==
  \A i \in Slots :
    IsTool(i) =>
      /\ gwCalls[i] <= 1 /\ httpCalls[i] <= 1
      /\ Done(i) => outcome[i].kind \in {"success", "failure"} /\ Len(outcome[i].text) >= 1

MaxResultsHandlers == {"search_content", "generate_content", "generate_with_prompt"}

\* C10 as stated: every limit and max_results that goes out is at most the
\* maximum the program fixes (the source fixes one maximum, LIMIT_MAX).
C10_AllLimitsClamped ==
  \A i \in Slots :
    /\ (handler[i] \in ListHandlers /\ request[i].sent) =>
         request[i].params.f["limit"].n <= LIMIT_MAX
    /\ (handler[i] \in MaxResultsHandlers /\ request[i].sent) =>
         (request[i].json.f["max_results"].t = "int" =>
            request[i].json.f["max_results"].n <= LIMIT_MAX)

\* C10 as amended: only "limit" is clamped (to 100); max_results goes out
\* exactly as passed.
C10_OnlyLimitClamped ==
  \A i \in Slots :
    /\ (handler[i] \in ListHandlers /\ request[i].sent) =>
         request[i].params.f["limit"].n <= 100
    /\ (handler[i] \in MaxResultsHandlers /\ request[i].sent) =>
         request[i].json.f["max_results"] = args[i].max_results

C10_Witness ==
  \E i \in Slots :
    /\ handler[i] = "generate_content" /\ request[i].sent
    /\ args[i].max_results = I(1000)
    /\ request[i].json.f["max_results"] = I(1000)


\* C8: invocations in flight together do not affect one another: the request
\* each one sends is the one its own arguments give, and what it returns is
\* what its own arguments and its own answer give, as when it runs alone.
C8_InvocationsIndependent ==
  \A i \in Slots :
    LET alone == Start(handler[i], args[i], INITIAL_API_KEY)
    IN /\ pc[i] = "called" => request[i] = NoRequest /\ outcome[i] = NoOutcome
       /\ pc[i] # "called" => request[i] = alone.request /\ pc[i] \in {alone.pc, "done"}
       /\ pc[i] = "awaiting" => outcome[i] = NoOutcome /\ response[i] = NoResponse
       /\ (Done(i) /\ alone.pc = "done") => outcome[i] = alone.outcome
       /\ (Done(i) /\ alone.pc = "awaiting") =>
            outcome[i] = Finish(handler[i], args[i], response[i])
       /\ gwCalls[i] <= 1 /\ httpCalls[i] <= 1

C8_Witness ==
  \E i, j \in Slots :
    /\ i # j /\ IsTool(i) /\ IsTool(j)
    /\ Done(i) /\ outcome[i].kind = "success"
    /\ pc[j] = "awaiting"
    /\ response[i].kind = "response"
    /\ request[i] # request[j]


====
